---------------------------- MODULE Spec2Model ----------------------------
(***************************************************************************)
(* Model of src/vm.py: the Vm execution engine (15-bit word architecture,  *)
(* cooperative input blocking), its dump/from_dump snapshots, parse_room   *)
(* and the breadth-first exploration loop of main().                       *)
(*                                                                         *)
(* Representation choices:                                                 *)
(*  - a Python str is the sequence of its code points; chr(n) is the       *)
(*    one-element sequence <<n>> and ord(s) is s[1];                       *)
(*  - the memory list (32776 cells) is kept as the function of its eight   *)
(*    register cells and its other non-zero cells: a cell outside the      *)
(*    domain holds 0, and storing 0 removes the cell, so equal lists are   *)
(*    equal functions;                                                     *)
(*  - an io.StringIO is a record [buf, pos] (contents and stream cursor).  *)
(***************************************************************************)
EXTENDS Integers, Sequences, FiniteSets, TLC

\* ------------------------------------------------------------- constants
\* grab: a raw word above this is rejected (vm.py line 55)
MaxOperand == 32775
\* val: a raw word up to this is a literal (vm.py line 60)
MaxLiteral == 32767
\* arithmetic modulus of add and mult (vm.py lines 105, 108)
Modulus == 32768
\* len(memory) after from_file: 2**15 + 8 (vm.py line 29)
MemSize == 32776
\* a word of the program file is two bytes, unsigned (vm.py lines 26-27)
WordLimit == 65536

READY == "READY"
HALTED == "HALTED"
INPUT_BLOCKED == "INPUT_BLOCKED"
State == {READY, HALTED, INPUT_BLOCKED}

\* ------------------------------------------------------------- io.StringIO
StringIO == [buf |-> <<>>, pos |-> 0]

\* write(s): overwrites from the cursor on, extends past the end, and leaves
\* the cursor after the text written
SioWrite(f, s) ==
    [buf |-> SubSeq(f.buf, 1, f.pos) \o s
               \o SubSeq(f.buf, f.pos + Len(s) + 1, Len(f.buf)),
     pos |-> f.pos + Len(s)]

SioSeek(f, p) == [f EXCEPT !.pos = p]

\* read(1): the character under the cursor, or "" at the end
SioRead1(f) ==
    IF f.pos < Len(f.buf)
    THEN [ch |-> <<f.buf[f.pos + 1]>>, f |-> [f EXCEPT !.pos = f.pos + 1]]
    ELSE [ch |-> <<>>, f |-> f]

SioTruncate(f, n) == [f EXCEPT !.buf = SubSeq(f.buf, 1, n)]

\* the text not yet read from a stream
Unread(f) == SubSeq(f.buf, f.pos + 1, Len(f.buf))

Chr(n) == <<n>>
Ord(s) == s[1]

\* ------------------------------------------------------------- memory list
\* the cells 32768..32775, which val reads as registers
Registers == (MaxLiteral + 1) .. MaxOperand

\* memory[a]
Cell(m, a) == IF a \in DOMAIN m THEN m[a] ELSE 0

\* memory[a] = x
Store(m, a, x) ==
    IF a \in DOMAIN m
    THEN IF x = 0 /\ a \notin Registers
         THEN [i \in DOMAIN m \ {a} |-> m[i]]
         ELSE [m EXCEPT ![a] = x]
    ELSE IF x = 0 THEN m ELSE (a :> x) @@ m

\* ------------------------------------------------------------- Vm
\* Vm.__init__
VmInit(memory, stack, ip) ==
    [memory |-> memory, stack |-> stack, ip |-> ip, state |-> READY,
     reader |-> StringIO, writer |-> StringIO]

\* the words f.read(2) yields from the bytes of a file, each decoded by
\* int.from_bytes(word, "little"); a trailing odd byte is a word of its own
FileWords(bytes) ==
    [n \in 1 .. (Len(bytes) + 1) \div 2 |->
        IF 2 * n <= Len(bytes) THEN bytes[2 * n - 1] + 256 * bytes[2 * n]
        ELSE bytes[2 * n - 1]]

\* Vm.from_file on a file holding bytes: instructions + [0] * (2**15 - n + 8)
FromFile(bytes) ==
    LET instructions == FileWords(bytes)
    IN  VmInit([i \in Registers |-> 0]
               @@ [i \in {j \in 0 .. Len(instructions) - 1 : instructions[j + 1] # 0}
                      |-> instructions[i + 1]],
               <<>>, 0)

\* Vm.dump, were it to capture the execution status as well
DumpWithState(vm) == <<vm.memory, vm.stack, vm.ip, vm.state>>

\* Vm.dump
Dump(vm) == <<vm.memory, vm.stack, vm.ip>>

\* Vm.from_dump, were it to start the new engine on an empty stack
FromDumpNoStack(dump) == VmInit(dump[1], <<>>, dump[3])

\* Vm.from_dump
FromDump(dump) == VmInit(dump[1], dump[2], dump[3])

\* Vm.input
InputOp(vm, s) ==
    LET pos == vm.reader.pos
    IN  [vm EXCEPT !.reader = SioSeek(SioWrite(vm.reader, s), pos),
                   !.state = READY]

\* Vm.output, were it to return the text and leave the stream alone
OutputKeep(vm) == [s |-> vm.writer.buf, vm |-> vm]

\* Vm.output: the text returned and the engine afterwards
OutputOp(vm) ==
    [s |-> vm.writer.buf,
     vm |-> [vm EXCEPT !.writer = SioSeek(SioTruncate(vm.writer, 0), 0)]]

\* Vm.val; a word above MaxOperand raises ValueError
Val(vm, i) ==
    IF i <= MaxLiteral THEN i
    ELSE IF i <= MaxOperand THEN Cell(vm.memory, i)
    ELSE "ValueError"


\* F(x), with x evaluated once whatever use F makes of it
Then(x, F(_)) == CHOOSE y \in {F(h) : h \in {x}} : TRUE

\* the outcome of a call: the engine afterwards and the exception raised
Ok(vm) == [vm |-> vm, exc |-> "none"]
Raise(vm, e) == [vm |-> vm, exc |-> e]

\* Vm.grab, were it to accept literals only (words up to MaxLiteral)
GrabLiteralOnly(vm) ==
    IF vm.ip >= MemSize
    THEN [vm |-> vm, result |-> 0, exc |-> "IndexError"]
    ELSE LET result == Cell(vm.memory, vm.ip)
             vm1 == [vm EXCEPT !.ip = vm.ip + 1]
         IN  [vm |-> vm1, result |-> result,
              exc |-> IF result <= MaxLiteral THEN "none" ELSE "ValueError"]

\* Vm.grab: memory[ip] raises IndexError past the end of the list, before ip
\* moves; a word above MaxOperand raises ValueError after ip has moved
Grab(vm) ==
    IF vm.ip >= MemSize
    THEN [vm |-> vm, result |-> 0, exc |-> "IndexError"]
    ELSE LET result == Cell(vm.memory, vm.ip)
             vm1 == [vm EXCEPT !.ip = vm.ip + 1]
         IN  [vm |-> vm1, result |-> result,
              exc |-> IF result <= MaxOperand THEN "none" ELSE "ValueError"]

\* n calls of grab, left to right, stopping at the first that raises
RECURSIVE GrabN(_, _)
GrabN(vm, n) ==
    IF n = 0 THEN [vm |-> vm, args |-> <<>>, exc |-> "none"]
    ELSE Then(Grab(vm), LAMBDA g :
             IF g.exc # "none" THEN [vm |-> g.vm, args |-> <<>>, exc |-> g.exc]
             ELSE Then(GrabN(g.vm, n - 1), LAMBDA r :
                      [vm |-> r.vm, args |-> <<g.result>> \o r.args, exc |-> r.exc]))

\* the operands grabbed, were every word above 21 to take one
NumOperandsUnknownOne(op) ==
    IF op \in {2, 3, 6, 17, 19, 20} THEN 1
    ELSE IF op \in {1, 7, 8, 14, 15, 16} THEN 2
    ELSE IF op \in {4, 5, 9, 10, 11, 12, 13} THEN 3
    ELSE IF op > 21 THEN 1
    ELSE 0

\* operands each case of step grabs; a word no case matches grabs none
NumOperands(op) ==
    IF op \in {2, 3, 6, 17, 19, 20} THEN 1
    ELSE IF op \in {1, 7, 8, 14, 15, 16} THEN 2
    ELSE IF op \in {4, 5, 9, 10, 11, 12, 13} THEN 3
    ELSE 0

\* Python's & and | on non-negative integers
RECURSIVE BitAnd(_, _)
BitAnd(x, y) ==
    IF x = 0 \/ y = 0 THEN 0
    ELSE (x % 2) * (y % 2) + 2 * BitAnd(x \div 2, y \div 2)

RECURSIVE BitOr(_, _)
BitOr(x, y) ==
    IF x = 0 THEN y
    ELSE IF y = 0 THEN x
    ELSE (IF x % 2 = 1 \/ y % 2 = 1 THEN 1 ELSE 0) + 2 * BitOr(x \div 2, y \div 2)

\* ((1 << 15) - 1) & ~x: the low 15 bits of x inverted
Not15(x) == (Modulus - 1) - (x % Modulus)

SetMem(vm, a, x) == [vm EXCEPT !.memory = Store(vm.memory, a, x)]

\* list.pop() on a non-empty stack
Top(stack) == stack[Len(stack)]
Popped(stack) == SubSeq(stack, 1, Len(stack) - 1)

\* the cases of step's match statement, each after its operands were grabbed
\* case 0, halt
OpHalt(vm) == Ok([vm EXCEPT !.state = HALTED])
\* case 1, set a b
OpSet(vm, a, b) == Ok(SetMem(vm, a, Val(vm, b)))
\* case 2, push a
OpPush(vm, a) == Ok([vm EXCEPT !.stack = Append(vm.stack, Val(vm, a))])
\* case 3, pop a: list.pop() on an empty list raises IndexError
OpPop(vm, a) ==
    IF vm.stack = <<>> THEN Raise(vm, "IndexError")
    ELSE Ok([SetMem(vm, a, Top(vm.stack)) EXCEPT !.stack = Popped(vm.stack)])
\* case 4, eq a b c
OpEq(vm, a, b, c) == Ok(SetMem(vm, a, IF Val(vm, b) = Val(vm, c) THEN 1 ELSE 0))
\* case 5, gt a b c
OpGt(vm, a, b, c) == Ok(SetMem(vm, a, IF Val(vm, b) > Val(vm, c) THEN 1 ELSE 0))
\* case 6, jmp a
OpJmp(vm, a) == Ok([vm EXCEPT !.ip = Val(vm, a)])
\* case 7, jt a b
OpJt(vm, a, b) == Ok(IF Val(vm, a) # 0 THEN [vm EXCEPT !.ip = Val(vm, b)] ELSE vm)
\* case 8, jf a b
OpJf(vm, a, b) == Ok(IF Val(vm, a) = 0 THEN [vm EXCEPT !.ip = Val(vm, b)] ELSE vm)
\* case 9, were the sum stored as it is
OpAddNoWrap(vm, a, b, c) == Ok(SetMem(vm, a, Val(vm, b) + Val(vm, c)))
\* case 9, add a b c
OpAdd(vm, a, b, c) == Ok(SetMem(vm, a, (Val(vm, b) + Val(vm, c)) % Modulus))
\* case 10, mult a b c
OpMult(vm, a, b, c) == Ok(SetMem(vm, a, (Val(vm, b) * Val(vm, c)) % Modulus))
\* case 11, mod a b c: a zero divisor raises ZeroDivisionError
OpMod(vm, a, b, c) ==
    IF Val(vm, c) = 0 THEN Raise(vm, "ZeroDivisionError")
    ELSE Ok(SetMem(vm, a, Val(vm, b) % Val(vm, c)))
\* case 12, and a b c
OpAnd(vm, a, b, c) == Ok(SetMem(vm, a, BitAnd(Val(vm, b), Val(vm, c))))
\* case 13, or a b c
OpOr(vm, a, b, c) == Ok(SetMem(vm, a, BitOr(Val(vm, b), Val(vm, c))))
\* case 14, not a b
OpNot(vm, a, b) == Ok(SetMem(vm, a, Not15(Val(vm, b))))
\* case 15, rmem a b: memory[v(b)] raises IndexError past the end of the list
OpRmem(vm, a, b) ==
    IF Val(vm, b) >= MemSize THEN Raise(vm, "IndexError")
    ELSE Ok(SetMem(vm, a, Cell(vm.memory, Val(vm, b))))
\* case 16, wmem a b
OpWmem(vm, a, b) ==
    IF Val(vm, a) >= MemSize THEN Raise(vm, "IndexError")
    ELSE Ok(SetMem(vm, Val(vm, a), Val(vm, b)))
\* case 17, call a
OpCall(vm, a) == Ok([vm EXCEPT !.stack = Append(vm.stack, vm.ip), !.ip = Val(vm, a)])
\* case 18, were an empty stack an error as it is for pop
OpRetRaises(vm) ==
    IF vm.stack = <<>> THEN Raise(vm, "IndexError")
    ELSE Ok([vm EXCEPT !.ip = Top(vm.stack), !.stack = Popped(vm.stack)])
\* case 18, ret
OpRet(vm) ==
    IF vm.stack = <<>> THEN Ok([vm EXCEPT !.state = HALTED])
    ELSE Ok([vm EXCEPT !.ip = Top(vm.stack), !.stack = Popped(vm.stack)])
\* case 19, out a
OpOut(vm, a) == Ok([vm EXCEPT !.writer = SioWrite(vm.writer, Chr(Val(vm, a)))])
\* case 20, were it to rewind ip over the operand only
OpInRewindOne(vm, a) ==
    LET rd == SioRead1(vm.reader)
    IN  IF rd.ch = <<>>
        THEN Ok([vm EXCEPT !.state = INPUT_BLOCKED, !.ip = vm.ip - 1])
        ELSE Ok([SetMem(vm, a, Ord(rd.ch)) EXCEPT !.reader = rd.f])

\* case 20, in a
OpIn(vm, a) ==
    LET rd == SioRead1(vm.reader)
    IN  IF rd.ch = <<>>
        THEN Ok([vm EXCEPT !.state = INPUT_BLOCKED, !.ip = vm.ip - 2])
        ELSE Ok([SetMem(vm, a, Ord(rd.ch)) EXCEPT !.reader = rd.f])

\* the match statement of step, after op and its operands x were grabbed; a
\* word no case matches (21, noop, and every word above it) does nothing
Effect(vm, op, x) ==
    LET a == x[1]
        b == x[2]
        c == x[3]
    IN  CASE op = 0 -> OpHalt(vm)
          [] op = 1 -> OpSet(vm, a, b)
          [] op = 2 -> OpPush(vm, a)
          [] op = 3 -> OpPop(vm, a)
          [] op = 4 -> OpEq(vm, a, b, c)
          [] op = 5 -> OpGt(vm, a, b, c)
          [] op = 6 -> OpJmp(vm, a)
          [] op = 7 -> OpJt(vm, a, b)
          [] op = 8 -> OpJf(vm, a, b)
          [] op = 9 -> OpAdd(vm, a, b, c)
          [] op = 10 -> OpMult(vm, a, b, c)
          [] op = 11 -> OpMod(vm, a, b, c)
          [] op = 12 -> OpAnd(vm, a, b, c)
          [] op = 13 -> OpOr(vm, a, b, c)
          [] op = 14 -> OpNot(vm, a, b)
          [] op = 15 -> OpRmem(vm, a, b)
          [] op = 16 -> OpWmem(vm, a, b)
          [] op = 17 -> OpCall(vm, a)
          [] op = 18 -> OpRet(vm)
          [] op = 19 -> OpOut(vm, a)
          [] op = 20 -> OpIn(vm, a)
          [] OTHER -> Ok(vm)

\* Vm.step
StepOp(vm) ==
    Then(Grab(vm), LAMBDA g0 :
        IF g0.exc # "none" THEN Raise(g0.vm, g0.exc)
        ELSE Then(GrabN(g0.vm, NumOperands(g0.result)), LAMBDA g :
                 IF g.exc # "none" THEN Raise(g.vm, g.exc)
                 ELSE Effect(g.vm, g0.result, g.args)))

\* at most n rounds of the while loop of Vm.run, which steps while the state
\* is READY and is left by an exception; the rounds are taken half by half
RECURSIVE Rounds(_, _)
Rounds(r, n) ==
    IF n = 0 \/ r.exc # "none" \/ r.vm.state # READY THEN r
    ELSE IF n = 1 THEN StepOp(r.vm)
    ELSE Then(Rounds(r, n \div 2), LAMBDA h : Rounds(h, n - n \div 2))

\* the while loop of Vm.run. A loop of more than fuel rounds is reported as
\* "NoReturn" (the call has not returned within the bound).
RunLoop(vm, fuel) ==
    Then(Ok(vm), LAMBDA r0 :
        Then(Rounds(r0, fuel), LAMBDA r :
            IF r.exc = "none" /\ r.vm.state = READY
            THEN Raise(r.vm, "NoReturn") ELSE r))

\* Vm.run, were it to test the state after the step (a do-while loop)
RunStepsFirst(vm, fuel) ==
    Then(StepOp(vm), LAMBDA r : IF r.exc # "none" THEN r ELSE RunLoop(r.vm, fuel))

\* Vm.run
RunOp(vm, fuel) == RunLoop(vm, fuel)

\* ------------------------------------------------------------- texts
TxtLook == <<108, 111, 111, 107, 10>>  \* "look\n"
TxtNewline == <<10>>  \* "\n"
TxtParagraphSep == <<10, 10>>  \* "\n\n"
TxtTitleMark == <<61, 61>>  \* "=="
TxtTitlePrefix == <<61, 61, 32>>  \* "== "
TxtTitleSuffix == <<32, 61, 61>>  \* " =="
\* "What do you do?\n"
TxtFooter ==
    <<87, 104, 97, 116, 32, 100, 111, 32, 121, 111, 117, 32, 100, 111, 63,
      10>>
\* "Twisty passages"
TxtTwisty ==
    <<84, 119, 105, 115, 116, 121, 32, 112, 97, 115, 115, 97, 103, 101,
      115>>
TxtLadder == <<108, 97, 100, 100, 101, 114>>  \* "ladder"
TxtNorth == <<110, 111, 114, 116, 104>>  \* "north"
TxtEast == <<101, 97, 115, 116>>  \* "east"
TxtSouth == <<115, 111, 117, 116, 104>>  \* "south"
TxtWest == <<119, 101, 115, 116>>  \* "west"
TxtDoor == <<100, 111, 111, 114>>  \* "door"
TxtFoyer == <<70, 111, 121, 101, 114>>  \* "Foyer"
TxtLamp == <<108, 97, 109, 112>>  \* "lamp"
TxtBody == <<120>>  \* "x"
TxtThings == <<84, 104, 105, 110, 103, 115, 58, 10>>  \* "Things:\n"
TxtExits == <<69, 120, 105, 116, 115, 58, 10>>  \* "Exits:\n"
TxtBullet == <<45, 32>>  \* "- "
TxtBadFooter == <<87, 104, 97, 116, 63, 10>>  \* "What?\n"
TxtQuit == <<113>>  \* "q"
TxtDumpCmd == <<100, 32, 102>>  \* "d f"
\* the commands main() feeds the engine before exploring (vm.py 216-230)
TxtWalkthrough ==
    <<116, 97, 107, 101, 32, 116, 97, 98, 108, 101, 116, 10, 100, 111, 111,
      114, 119, 97, 121, 10, 110, 111, 114, 116, 104, 10, 110, 111, 114,
      116, 104, 10, 98, 114, 105, 100, 103, 101, 10, 99, 111, 110, 116,
      105, 110, 117, 101, 10, 100, 111, 119, 110, 10, 101, 97, 115, 116,
      10, 116, 97, 107, 101, 32, 101, 109, 112, 116, 121, 32, 108, 97, 110,
      116, 101, 114, 110, 10, 119, 101, 115, 116, 10, 119, 101, 115, 116,
      10, 112, 97, 115, 115, 97, 103, 101, 10, 108, 97, 100, 100, 101, 114,
      10>>

\* ------------------------------------------------------------- parse_room
\* the least j >= i at which sep occurs in s, or 0
Find(s, sep, i) ==
    Then({j \in i .. Len(s) - Len(sep) + 1 : SubSeq(s, j, j + Len(sep) - 1) = sep},
         LAMBDA at : IF at = {} THEN 0 ELSE CHOOSE j \in at : \A k \in at : j <= k)

\* str.split(sep): the pieces between the occurrences of sep, left to right
RECURSIVE Split(_, _)
Split(s, sep) ==
    Then(Find(s, sep, 1), LAMBDA j :
        IF j = 0 THEN <<s>>
        ELSE <<SubSeq(s, 1, j - 1)>>
             \o Then(SubSeq(s, j + Len(sep), Len(s)), LAMBDA rest : Split(rest, sep)))

\* the characters str.splitlines breaks a line at: \n \r \v \f \x1c \x1d \x1e
\* \x85 \u2028 \u2029 (\r\n counts as one break)
LineBreaks == {10, 13, 11, 12, 28, 29, 30, 133, 8232, 8233}

\* the least j >= i at which s has a line break, or 0
FindBreak(s, i) ==
    Then({j \in i .. Len(s) : s[j] \in LineBreaks},
         LAMBDA at : IF at = {} THEN 0 ELSE CHOOSE j \in at : \A k \in at : j <= k)

\* str.splitlines(): the lines of s without their breaks; no empty last line
RECURSIVE SplitLines(_)
SplitLines(s) ==
    IF s = <<>> THEN <<>>
    ELSE Then(FindBreak(s, 1), LAMBDA j :
             LET k == IF j < Len(s) /\ s[j] = 13 /\ s[j + 1] = 10 THEN j + 1 ELSE j
             IN  IF j = 0 THEN <<s>>
                 ELSE <<SubSeq(s, 1, j - 1)>>
                      \o Then(SubSeq(s, k + 1, Len(s)), LAMBDA rest : SplitLines(rest)))

StartsWith(s, p) == Len(p) <= Len(s) /\ SubSeq(s, 1, Len(p)) = p
EndsWith(s, p) == Len(p) <= Len(s) /\ SubSeq(s, Len(s) - Len(p) + 1, Len(s)) = p
RemovePrefix(s, p) == IF StartsWith(s, p) THEN SubSeq(s, Len(p) + 1, Len(s)) ELSE s
RemoveSuffix(s, p) == IF EndsWith(s, p) THEN SubSeq(s, 1, Len(s) - Len(p)) ELSE s

\* [line[2:] for line in paragraph.splitlines()[1:]]
Items(paragraph) ==
    Then(SplitLines(paragraph), LAMBDA lines :
        [n \in 1 .. Len(lines) - 1 |-> SubSeq(lines[n + 1], 3, Len(lines[n + 1]))])

NoRoom(e) == [exc |-> e, title |-> <<>>, text |-> <<>>, interests |-> <<>>,
              exits |-> <<>>]

\* parse_room: the room, or the exception the first failing statement raises
ParseRoom(s) ==
    Then(Split(s, TxtParagraphSep), LAMBDA paragraphs :
        IF paragraphs[1] # <<>> THEN NoRoom("AssertionError")
        ELSE IF Len(paragraphs) < 2 THEN NoRoom("IndexError")
        ELSE Then(SplitLines(paragraphs[2]), LAMBDA lines :
            LET n == Len(paragraphs)
                title == RemoveSuffix(RemovePrefix(lines[1], TxtTitlePrefix),
                                      TxtTitleSuffix)
            IN  IF Len(lines) # 2 THEN NoRoom("ValueError")
                ELSE IF ~StartsWith(lines[1], TxtTitleMark) THEN NoRoom("AssertionError")
                ELSE IF n \notin {4, 5} THEN NoRoom("AssertionError")
                ELSE IF paragraphs[n] # TxtFooter THEN NoRoom("AssertionError")
                ELSE [exc |-> "none", title |-> title, text |-> lines[2],
                      interests |-> IF n = 5 THEN Items(paragraphs[3]) ELSE <<>>,
                      exits |-> IF n = 5 THEN Items(paragraphs[4])
                                ELSE Items(paragraphs[3])]))

\* the exits main() branches on
KnownExits == {TxtLadder, TxtNorth, TxtEast, TxtSouth, TxtWest}

\* the three tests of main() that hand the engine to resume
Anomalous(room) ==
    \/ room.title # TxtTwisty
    \/ room.interests # <<>>
    \/ \E n \in 1 .. Len(room.exits) : room.exits[n] \notin KnownExits

\* ------------------------------------------------------------- bounds
\* words of memory an engine's ip may reach before step and run are cut off
MaxIp == 10
\* characters supplied to one engine in all
MaxSupplied == 3
\* steps of one run call
MaxRun == 40
\* steps of one run call of the hosted program
MaxGameRun == 700
\* commands the operator types in one resume session
MaxOperator == 2

\* ------------------------------------------------------------- programs
\* the bytes of a program file holding the given words, little-endian
ToBytes(words) ==
    [n \in 1 .. 2 * Len(words) |->
        IF n % 2 = 1 THEN words[(n + 1) \div 2] % 256 ELSE words[n \div 2] \div 256]

\* call 6 ; out r0 ; jmp 0 ; 6: in r0 ; ret
ProgEcho == <<17, 6, 19, 32768, 6, 0, 20, 32768, 18>>
\* out 'A' ; halt ; out 'B' ; ret
ProgHalt == <<19, 65, 0, 19, 66, 18>>
\* in r0 ; out r0 ; halt
ProgOnce == <<20, 32768, 19, 32768, 0>>

\* out 'A' ; out 'B' ; halt
ProgAB == <<19, 65, 19, 66, 0>>

Programs == {ProgEcho, ProgHalt, ProgOnce, ProgAB}

\* the texts a caller passes to input: "", "a", "bc"
Inputs == {<<>>, <<97>>, <<98, 99>>}

\* ------------------------------------------------------------- hosted program
(***************************************************************************)
(* main() explores whatever program the binary file holds.  The programs   *)
(* explored here are small text adventures in the engine's own instruction *)
(* set, assembled from a description of their rooms: a game is             *)
(* [rooms, start, keep], a room [title, interests, exits, prompt] and an   *)
(* exit [name, to].  The program reads a line, answers "look" by printing  *)
(* the current room in the layout parse_room reads, and answers the first  *)
(* letter of one of the room's exits by moving there; register 7 holds the *)
(* address of the current room.  With keep = FALSE it clears its scratch   *)
(* registers before it reads a line, so that its memory at a prompt is a   *)
(* function of the room alone; with keep = TRUE it leaves them as they are.*)
(***************************************************************************)
\* the interpreter, 93 words; L0 = 3 (clear scratch), 15: in r0, 42: dispatch
\* on "lo", 61: search the exit table, 84: found
GameCode(start, keep) ==
    <<1, 32775, start>>
    \o (IF keep THEN <<21, 21, 21, 21, 21, 21, 21, 21, 21, 21, 21, 21>>
        ELSE <<1, 32768, 0, 1, 32769, 0, 1, 32770, 0, 1, 32771, 0>>)
    \o <<20, 32768, 4, 32770, 32768, 10, 7, 32770, 3,
         20, 32769, 4, 32770, 32769, 10, 7, 32770, 42,
         20, 32771, 4, 32770, 32771, 10, 8, 32770, 33,
         4, 32770, 32768, 108, 8, 32770, 61,
         4, 32770, 32769, 111, 8, 32770, 61,
         15, 32770, 32775, 6, 32770,
         9, 32771, 32775, 1,
         15, 32770, 32771, 8, 32770, 3, 4, 32770, 32770, 32768, 7, 32770, 84,
         9, 32771, 32771, 2, 6, 65,
         9, 32771, 32771, 1, 15, 32775, 32771, 6, 3>>

\* the texts of a sequence joined, half by half
RECURSIVE Concat(_)
Concat(ss) ==
    IF ss = <<>> THEN <<>>
    ELSE IF Len(ss) = 1 THEN ss[1]
    ELSE Concat(SubSeq(ss, 1, Len(ss) \div 2))
         \o Concat(SubSeq(ss, Len(ss) \div 2 + 1, Len(ss)))

\* what the game prints for a room
RoomText(room) ==
    TxtParagraphSep \o TxtTitlePrefix \o room.title \o TxtTitleSuffix \o TxtNewline
    \o TxtBody \o TxtParagraphSep
    \o (IF room.interests = <<>> THEN <<>>
        ELSE TxtThings
             \o Concat([n \in 1 .. Len(room.interests) |->
                            TxtBullet \o room.interests[n] \o TxtNewline])
             \o TxtNewline)
    \o TxtExits
    \o Concat([n \in 1 .. Len(room.exits) |->
                   TxtBullet \o room.exits[n].name \o TxtNewline])
    \o TxtNewline
    \o room.prompt

\* words of a room's block: the address of its print code, its exit table
\* (first letter, target) closed by 0, the print code, jmp L0
RoomLen(room) == 1 + 2 * Len(room.exits) + 1 + 2 * Len(RoomText(room)) + 2

RECURSIVE RoomAddr(_, _)
RoomAddr(game, k) ==
    IF k = 1 THEN Len(GameCode(0, FALSE))
    ELSE RoomAddr(game, k - 1) + RoomLen(game.rooms[k - 1])

RoomBlock(game, k) ==
    LET room == game.rooms[k]
        text == RoomText(room)
    IN  <<RoomAddr(game, k) + 2 * Len(room.exits) + 2>>
        \o Concat([n \in 1 .. Len(room.exits) |->
                       <<room.exits[n].name[1], RoomAddr(game, room.exits[n].to)>>])
        \o <<0>>
        \o Concat([n \in 1 .. Len(text) |-> <<19, text[n]>>])
        \o <<6, 3>>

\* the words of the program file of a game
GameWords(game) ==
    GameCode(RoomAddr(game, game.start), game.keep)
    \o Concat([k \in 1 .. Len(game.rooms) |-> RoomBlock(game, k)])

Exit(name, to) == [name |-> name, to |-> to]
Twisty(exits) == [title |-> TxtTwisty, interests |-> <<>>, exits |-> exits,
                  prompt |-> TxtFooter]

\* every game of two canonical rooms whose exits are among north and south;
\* f[k][d] is the room exit d of room k leads to, 0 for no such exit
TwoRoomGames ==
    {[rooms |-> [k \in 1 .. 2 |->
                    Twisty((IF f[k][1] = 0 THEN <<>> ELSE <<Exit(TxtNorth, f[k][1])>>)
                           \o (IF f[k][2] = 0 THEN <<>> ELSE <<Exit(TxtSouth, f[k][2])>>))],
      start |-> 1, keep |-> FALSE] : f \in [1 .. 2 -> [1 .. 2 -> 0 .. 2]]}

\* A has an exit to B and B an exit back to A
GameTwoRooms ==
    [rooms |-> <<Twisty(<<Exit(TxtNorth, 2)>>), Twisty(<<Exit(TxtSouth, 1)>>)>>,
     start |-> 1, keep |-> FALSE]

\* the same rooms, in a program that keeps its scratch registers
GameKeep == [GameTwoRooms EXCEPT !.keep = TRUE]

\* three rooms in a cycle; a ladder leads from the second to a fourth room
GameLadder ==
    [rooms |-> <<Twisty(<<Exit(TxtSouth, 2)>>),
                 Twisty(<<Exit(TxtLadder, 4), Exit(TxtSouth, 3)>>),
                 Twisty(<<Exit(TxtSouth, 1)>>),
                 Twisty(<<Exit(TxtSouth, 1)>>)>>,
     start |-> 1, keep |-> FALSE]

\* the room south of the start has another title, and an exit to a third
GameTitle ==
    [rooms |-> <<Twisty(<<Exit(TxtSouth, 2)>>),
                 [Twisty(<<Exit(TxtSouth, 3)>>) EXCEPT !.title = TxtFoyer],
                 Twisty(<<>>)>>,
     start |-> 1, keep |-> FALSE]

\* the room south of the start lists a thing of interest
GameInterest ==
    [rooms |-> <<Twisty(<<Exit(TxtSouth, 2)>>),
                 [Twisty(<<Exit(TxtSouth, 3)>>) EXCEPT !.interests = <<TxtLamp>>],
                 Twisty(<<>>)>>,
     start |-> 1, keep |-> FALSE]

\* the room south of the start has an exit "door"
GameDoor ==
    [rooms |-> <<Twisty(<<Exit(TxtSouth, 2)>>),
                 Twisty(<<Exit(TxtSouth, 1), Exit(TxtDoor, 3)>>),
                 Twisty(<<>>)>>,
     start |-> 1, keep |-> FALSE]

\* the room south of the start ends its text with another prompt
GameBadFooter ==
    [rooms |-> <<Twisty(<<Exit(TxtSouth, 2)>>),
                 [Twisty(<<Exit(TxtSouth, 1)>>) EXCEPT !.prompt = TxtBadFooter]>>,
     start |-> 1, keep |-> FALSE]

Games ==
    TwoRoomGames
    \cup {GameTwoRooms, GameKeep, GameLadder, GameTitle, GameInterest, GameDoor,
          GameBadFooter}

\* what the operator may type at the prompt of resume, besides "q"
OperatorCommands == {TxtNorth, TxtSouth, TxtDumpCmd}

\* ------------------------------------------------------------- state
VARIABLES
    vm,         \* the engine
    exc,        \* the exception the last call on vm raised, or "none"
    clone,      \* <<>>, or <<the engine from_dump built from vm's dump>>
    exc2,       \* the exception the last call on the clone raised
    last,       \* the last call: [op, s] (s: the text passed or returned)
    supplied,   \* history: the texts passed to vm.input, concatenated
    delivered,  \* history: the characters `in` instructions of vm have read
    out1,       \* history: what vm has written since the clone was built
    out2,       \* history: what the clone has written
    snapPre,    \* history: vm was not HALTED and had no unread input at the dump
    cyc,        \* history: one blocked / input / resumed cycle of vm
    written,    \* history: the characters `out` instructions of vm have written
    drained,    \* history: the texts vm.output has returned, concatenated
    prev,       \* history: vm before each single instruction, the last one last
    game,       \* main: the game the program file holds
    seen,       \* main: the set seen
    q,          \* main: the deque q
    pc,         \* main: where control is ("off" while main is not running)
    dump,       \* main: the dump taken from q
    room,       \* main: what parse_room returned for it
    i,          \* main: the index in exits of the exit the for loop is at
    nop,        \* resume: the commands the operator has typed
    expanded,   \* history: the dumps taken from q, in order
    heap,       \* branches: the list and tuple objects, by identity
    snapshot,   \* branches: the dump the engines are restored from
    engines     \* branches: the engines restored from it

\* the variables of the calls on one engine and its clone
hvars == <<clone, exc2, last, supplied, delivered, out1, out2, snapPre, cyc,
           written, drained, prev>>
\* the variables of main
xvars == <<game, seen, q, pc, dump, room, i, nop, expanded>>
\* the variables of the engines restored from one dump
bvars == <<heap, snapshot, engines>>
vars == <<vm, exc, hvars, xvars, bvars>>

Idle == [phase |-> "idle", ip0 |-> 0, ch |-> 0, n |-> 0, ip1 |-> 0, got |-> 0,
         first |-> 0]

Init ==
    /\ \E prog \in Programs : vm = FromFile(ToBytes(prog))
    /\ exc = "none"
    /\ clone = <<>>
    /\ exc2 = "none"
    /\ last = [op |-> "init", s |-> <<>>]
    /\ supplied = <<>>
    /\ delivered = <<>>
    /\ out1 = <<>>
    /\ out2 = <<>>
    /\ snapPre = FALSE
    /\ cyc = Idle
    /\ written = <<>>
    /\ drained = <<>>
    /\ prev = <<>>
    /\ heap = <<>>
    /\ snapshot = <<>>
    /\ engines = <<>>
    /\ game = [rooms |-> <<>>, start |-> 0, keep |-> FALSE]
    /\ seen = {}
    /\ q = <<>>
    /\ pc = "off"
    /\ dump = <<>>
    /\ room = NoRoom("none")
    /\ i = 0
    /\ nop = 0
    /\ expanded = <<>>

\* what engine b has written that engine a (the same engine, earlier) had not
Emitted(a, b) == SubSeq(b.writer.buf, Len(a.writer.buf) + 1, Len(b.writer.buf))
\* what engine b has read that engine a had not
Consumed(a, b) == SubSeq(b.reader.buf, a.reader.pos + 1, b.reader.pos)

InBounds(e) == e.ip < MaxIp

\* the history variables after a call of step or run took vm to r.vm and the
\* clone (if any) to r2.vm
Executed(op, r, r2) ==
    /\ vm' = r.vm
    /\ exc' = r.exc
    /\ clone' = IF clone = <<>> THEN <<>> ELSE <<r2.vm>>
    /\ exc2' = IF clone = <<>> THEN "none" ELSE r2.exc
    /\ last' = [op |-> op, s |-> <<>>]
    /\ delivered' = delivered \o Consumed(vm, r.vm)
    /\ out1' = IF clone = <<>> THEN <<>> ELSE out1 \o Emitted(vm, r.vm)
    /\ out2' = IF clone = <<>> THEN <<>> ELSE out2 \o Emitted(clone[1], r2.vm)
    /\ cyc' = IF cyc.phase # "armed" THEN Idle
              ELSE LET d == delivered \o Consumed(vm, r.vm)
                   IN  [cyc EXCEPT !.phase = "resumed",
                                   !.ip1 = vm.ip,
                                   !.got = IF op = "step"
                                           THEN Cell(r.vm.memory, Cell(vm.memory, vm.ip + 1))
                                           ELSE cyc.ch,
                                   !.first = IF Len(d) > cyc.n THEN d[cyc.n + 1] ELSE 0]
    /\ UNCHANGED <<supplied, snapPre, drained, prev, xvars, bvars>>

\* what one step of a READY or other engine writes: the character of the
\* `out` instruction at ip, if the step raises nothing
StepOut(e) ==
    IF Cell(e.memory, e.ip) = 19 /\ StepOp(e).exc = "none"
    THEN Chr(Val(e, Cell(e.memory, e.ip + 1)))
    ELSE <<>>

\* what the `out` instructions of at most n rounds of run write, in order
RECURSIVE RunOut(_, _)
RunOut(e, n) ==
    IF n = 0 \/ e.state # READY THEN <<>>
    ELSE Then(StepOp(e), LAMBDA r :
             IF r.exc # "none" THEN <<>> ELSE StepOut(e) \o RunOut(r.vm, n - 1))

\* a caller calls vm.step() (and the same on the clone)
Step ==
    /\ InBounds(vm)
    /\ clone # <<>> => InBounds(clone[1])
    /\ Executed("step", StepOp(vm), StepOp(clone[1]))
    /\ written' = written \o StepOut(vm)

\* a caller calls vm.run() (and the same on the clone), and the call returns
Run ==
    /\ InBounds(vm)
    /\ clone # <<>> => InBounds(clone[1])
    /\ LET r == RunOp(vm, MaxRun)
           r2 == RunOp(clone[1], MaxRun)
       IN  /\ r.exc # "NoReturn"
           /\ clone # <<>> => r2.exc # "NoReturn"
           /\ Executed("run", r, r2)
    /\ written' = written \o RunOut(vm, MaxRun)

\* a caller calls vm.input(s) (and the same on the clone)
Input ==
    \E s \in Inputs :
        /\ Len(supplied) + Len(s) <= MaxSupplied
        /\ vm' = InputOp(vm, s)
        /\ clone' = IF clone = <<>> THEN <<>> ELSE <<InputOp(clone[1], s)>>
        /\ exc' = "none"
        /\ exc2' = "none"
        /\ last' = [op |-> "input", s |-> s]
        /\ supplied' = supplied \o s
        /\ cyc' = IF vm.state = INPUT_BLOCKED /\ s # <<>>
                  THEN [Idle EXCEPT !.phase = "armed", !.ip0 = vm.ip, !.ch = s[1],
                                    !.n = Len(delivered)]
                  ELSE Idle
        /\ UNCHANGED <<delivered, out1, out2, snapPre, written, drained, prev,
                       xvars, bvars>>

\* a caller calls vm.output() (and the same on the clone)
Output ==
    /\ vm' = OutputOp(vm).vm
    /\ clone' = IF clone = <<>> THEN <<>> ELSE <<OutputOp(clone[1]).vm>>
    /\ exc' = "none"
    /\ exc2' = "none"
    /\ last' = [op |-> "output", s |-> OutputOp(vm).s]
    /\ cyc' = Idle
    /\ drained' = drained \o OutputOp(vm).s
    /\ UNCHANGED <<supplied, delivered, out1, out2, snapPre, written, prev,
                   xvars, bvars>>

\* a caller builds a second engine: Vm.from_dump(vm.dump())
Snapshot ==
    /\ clone = <<>>
    /\ clone' = <<FromDump(Dump(vm))>>
    /\ snapPre' = (vm.state # HALTED /\ Unread(vm.reader) = <<>>)
    /\ exc' = "none"
    /\ exc2' = "none"
    /\ last' = [op |-> "snapshot", s |-> <<>>]
    /\ out1' = <<>>
    /\ out2' = <<>>
    /\ cyc' = Idle
    /\ UNCHANGED <<vm, supplied, delivered, written, drained, prev, xvars, bvars>>

Next == Step \/ Run \/ Input \/ Output \/ Snapshot

Spec == Init /\ [][Next]_vars

\* ------------------------------------------------------------- main
\* vm = Vm.from_dump(dump); vm.input(text); vm.run()
Command(d, text) == RunOp(InputOp(FromDump(d), text), MaxGameRun)

\* a loop that enqueues dump2 without looking it up in seen
VisitNoCheck(s, frontier, d2) ==
    [seen |-> s \cup {d2}, q |-> Append(frontier, d2)]

\* a loop that records dump2 in seen but never enqueues it
VisitNoEnqueue(s, frontier, d2) ==
    [seen |-> s \cup {d2}, q |-> frontier]

\* if dump2 in seen: continue; seen.add(dump2); q.append(dump2)
Visit(s, frontier, d2) ==
    IF d2 \in s THEN [seen |-> s, q |-> frontier]
    ELSE [seen |-> s \cup {d2}, q |-> Append(frontier, d2)]

\* one pass of the while loop of resume, from its top to the call of
\* input() (at "prompt") or to a break (at "exits", back in main)
ResumeTurn(e) ==
    IF e.state # READY THEN [vm |-> e, exc |-> "AssertionError", at |-> "aborted"]
    ELSE Then(RunOp(e, MaxGameRun), LAMBDA r :
             IF r.exc # "none" THEN [vm |-> r.vm, exc |-> r.exc, at |-> "aborted"]
             ELSE IF r.vm.state # INPUT_BLOCKED
             THEN [vm |-> OutputOp(r.vm).vm, exc |-> "none", at |-> "exits"]
             ELSE Then(RunOp(InputOp(OutputOp(r.vm).vm, TxtLook), MaxGameRun),
                       LAMBDA r2 :
                          [vm |-> r2.vm, exc |-> r2.exc,
                           at |-> IF r2.exc # "none" THEN "aborted" ELSE "prompt"]))

\* main up to its while loop: the program is loaded, fed the walkthrough and
\* run, its output drained, and seen and q hold its dump
InitExplore ==
    /\ \E g \in Games :
          \E r \in {RunOp(InputOp(FromFile(ToBytes(GameWords(g))), TxtWalkthrough),
                         MaxGameRun)} :
          \E e \in {OutputOp(r.vm).vm} :
              /\ r.exc = "none"
              /\ game = g
              /\ vm = e
              /\ seen = {Dump(e)}
              /\ q = <<Dump(e)>>
    /\ exc = "none"
    /\ pc = "loop"
    /\ dump = <<>>
    /\ room = NoRoom("none")
    /\ i = 0
    /\ nop = 0
    /\ expanded = <<>>
    /\ clone = <<>>
    /\ exc2 = "none"
    /\ last = [op |-> "init", s |-> <<>>]
    /\ supplied = <<>>
    /\ delivered = <<>>
    /\ out1 = <<>>
    /\ out2 = <<>>
    /\ snapPre = FALSE
    /\ cyc = Idle
    /\ written = <<>>
    /\ drained = <<>>
    /\ prev = <<>>
    /\ heap = <<>>
    /\ snapshot = <<>>
    /\ engines = <<>>

\* the top of the while loop: a dump leaves q, a fresh engine looks, the text
\* is parsed and tested for anomalies. An exception ends main.
Dequeue ==
    /\ pc = "loop"
    /\ q # <<>>
    /\ \E r \in {Command(Head(q), TxtLook)} :
       \E o \in {OutputOp(r.vm)} :
       \E rm \in {ParseRoom(o.s)} :
           /\ r.exc # "NoReturn"
           /\ dump' = Head(q)
           /\ q' = Tail(q)
           /\ expanded' = Append(expanded, Head(q))
           /\ IF r.exc # "none"
              THEN vm' = r.vm /\ exc' = r.exc /\ room' = room /\ pc' = "aborted"
              ELSE /\ vm' = o.vm
                   /\ exc' = rm.exc
                   /\ room' = rm
                   /\ pc' = IF rm.exc # "none" THEN "aborted"
                            ELSE IF Anomalous(rm) THEN "resume"
                            ELSE "exits"
    /\ i' = 1
    /\ nop' = 0
    /\ UNCHANGED <<game, seen, hvars, bvars>>

\* resume(vm), from its entry to its first call of input() or its return
ResumeEnter ==
    /\ pc = "resume"
    /\ \E t \in {ResumeTurn(InputOp(vm, TxtLook))} :
           /\ t.exc # "NoReturn"
           /\ vm' = t.vm
           /\ exc' = t.exc
           /\ pc' = t.at
    /\ UNCHANGED <<game, seen, q, dump, room, i, nop, expanded, hvars, bvars>>

\* the operator types "q": resume returns to main
OperatorQuit ==
    /\ pc = "prompt"
    /\ pc' = "exits"
    /\ UNCHANGED <<vm, exc, game, seen, q, dump, room, i, nop, expanded, hvars, bvars>>

\* the operator types a command (after "d <path>" the dump is written to the
\* file named, which is no part of this state): it is passed to the engine,
\* and the loop of resume goes round
OperatorCommand ==
    /\ pc = "prompt"
    /\ nop < MaxOperator
    /\ \E inp \in OperatorCommands :
          \E t \in {ResumeTurn(InputOp(vm, inp \o TxtNewline))} :
              /\ t.exc # "NoReturn"
              /\ vm' = t.vm
              /\ exc' = t.exc
              /\ pc' = t.at
    /\ nop' = nop + 1
    /\ UNCHANGED <<game, seen, q, dump, room, i, expanded, hvars, bvars>>

\* one round of `for exit in exits`
ExitStep ==
    /\ pc = "exits"
    /\ i <= Len(room.exits)
    /\ IF room.exits[i] = TxtLadder
       THEN UNCHANGED <<vm, exc, seen, q, pc>>
       ELSE \E r \in {Command(dump, room.exits[i] \o TxtNewline)} :
            \E v \in {Visit(seen, q, Dump(r.vm))} :
                /\ r.exc # "NoReturn"
                /\ vm' = r.vm
                /\ exc' = r.exc
                /\ IF r.exc # "none"
                   THEN pc' = "aborted" /\ UNCHANGED <<seen, q>>
                   ELSE pc' = pc /\ seen' = v.seen /\ q' = v.q
    /\ i' = i + 1
    /\ UNCHANGED <<game, dump, room, nop, expanded, hvars, bvars>>

\* the for loop is over: back to the test of the while loop
NextNode ==
    /\ pc = "exits"
    /\ i > Len(room.exits)
    /\ pc' = "loop"
    /\ UNCHANGED <<vm, exc, game, seen, q, dump, room, i, nop, expanded, hvars, bvars>>

\* q is empty: the while loop and main are over
Finish ==
    /\ pc = "loop"
    /\ q = <<>>
    /\ pc' = "done"
    /\ UNCHANGED <<vm, exc, game, seen, q, dump, room, i, nop, expanded, hvars, bvars>>

\* the steps main takes by itself
MainStep == Dequeue \/ ResumeEnter \/ ExitStep \/ NextNode \/ Finish

NextExplore == MainStep \/ OperatorQuit \/ OperatorCommand

\* main runs on as long as it can; the operator may stay silent for ever
SpecExplore == InitExplore /\ [][NextExplore]_vars /\ WF_vars(MainStep)

\* ------------------------------------------------------------- claims
IsPrefix(s, u) == Len(s) <= Len(u) /\ SubSeq(u, 1, Len(s)) = s

\* C1, as stated: an engine built by from_dump from the dump of an engine at
\* any point (any status, unread input or not) writes, under the same calls,
\* the same output as the original from that point on and is in the same
\* machine state.
C1_FidelityAtAnyPoint ==
    clone # <<>> => out2 = out1 /\ Dump(clone[1]) = Dump(vm)

\* C1, amended: the same, for a dump taken from an engine that is not HALTED
\* and has no unread input: the two engines write the same output, raise the
\* same exceptions, hold the same memory, stack and ip, and have the same
\* status (but for a clone still READY where the original is INPUT_BLOCKED,
\* which the first run call removes).
C1_SnapshotFidelity ==
    (clone # <<>> /\ snapPre) =>
        /\ out2 = out1
        /\ exc2 = exc
        /\ Dump(clone[1]) = Dump(vm)
        /\ Unread(clone[1].reader) = Unread(vm.reader)
        /\ \/ clone[1].state = vm.state
           \/ vm.state = INPUT_BLOCKED /\ clone[1].state = READY
        /\ last.op = "run" => clone[1].state = vm.state

\* a clone of an engine blocked inside a subroutine has been fed input and
\* run, and both engines have written output
C1_Witness ==
    /\ clone # <<>> /\ snapPre
    /\ clone[1].stack # <<>>
    /\ out2 # <<>>
    /\ last.op = "run"

\* C2: `in` on an empty input queue leaves the engine INPUT_BLOCKED with ip
\* back on the `in` opcode and memory and stack untouched; after input is
\* supplied, the next step decodes at that same ip and stores the first
\* supplied character through operand a, and a run reads that character first.
C2_BlockedAttempt ==
    (/\ last'.op = "step"
     /\ Cell(vm.memory, vm.ip) = 20
     /\ Cell(vm.memory, vm.ip + 1) <= MaxOperand
     /\ Unread(vm.reader) = <<>>)
    => (vm' = [vm EXCEPT !.state = INPUT_BLOCKED] /\ exc' = "none")

C2_Resumed ==
    /\ vm.state = INPUT_BLOCKED =>
          Cell(vm.memory, vm.ip) = 20 /\ Unread(vm.reader) = <<>>
    /\ cyc.phase = "armed" => vm.state = READY /\ vm.ip = cyc.ip0
    /\ cyc.phase = "resumed" =>
          cyc.ip1 = cyc.ip0 /\ cyc.got = cyc.ch /\ cyc.first = cyc.ch

C2_BlockResume == []C2_Resumed /\ [][C2_BlockedAttempt]_vars

\* an engine that blocked, was given "bc" and stepped once holds 'b'
C2_Witness ==
    cyc.phase = "resumed" /\ last.op = "step" /\ cyc.got = 98 /\ delivered # <<>>

\* C3: the characters `in` instructions have read are a prefix of the texts
\* passed to input, concatenated in call order.
C3_InputFifo == IsPrefix(delivered, supplied)

\* C4: once the state is HALTED no call changes the state, memory, stack or
\* ip of the engine, or makes it write.
C4_HaltedTerminal ==
    [][vm.state = HALTED =>
          /\ vm'.state = HALTED
          /\ Dump(vm') = Dump(vm)
          /\ vm'.writer = vm.writer \/ last'.op = "output"]_vars

\* C5: step executes one instruction of a READY engine and changes nothing
\* of an engine that is HALTED or INPUT_BLOCKED.
C5_StepGuarded ==
    [][last'.op = "step" =>
          IF vm.state = READY
          THEN vm' = StepOp(vm).vm
          ELSE vm' = vm /\ exc' = "none"]_vars

\* C6: a run call that returns normally leaves the state HALTED or
\* INPUT_BLOCKED, and on an engine that is not READY it changes nothing.
C6_RunReturns ==
    [][last'.op = "run" =>
          /\ exc' = "none" => vm'.state \in {HALTED, INPUT_BLOCKED}
          /\ vm.state # READY => vm' = vm /\ exc' = "none"]_vars

\* a run call has read input, written output and returned INPUT_BLOCKED
C6_Witness ==
    /\ last.op = "run" /\ exc = "none"
    /\ vm.state = INPUT_BLOCKED
    /\ delivered # <<>> /\ vm.writer.buf # <<>>

\* C7: every snapshot in the frontier queue is in the visited set, and no
\* snapshot occurs twice among those dequeued so far and those still queued
\* (none is enqueued twice, none is expanded twice).
C7_Dedup ==
    /\ \A k \in 1 .. Len(q) : q[k] \in seen
    /\ \A a, b \in 1 .. Len(expanded \o q) :
          (expanded \o q)[a] = (expanded \o q)[b] => a = b

\* the engine restored for an exit has moved to a snapshot that was expanded
\* before and is not queued again
C7_Witness ==
    /\ pc = "exits" /\ i > 1 /\ exc = "none"
    /\ room.exits[i - 1] # TxtLadder
    /\ \E k \in 1 .. Len(expanded) : expanded[k] = Dump(vm)
    /\ \A k \in 1 .. Len(q) : q[k] # Dump(vm)

\* a room of a game that parse_room reads without error and main takes for
\* an ordinary one
PlainRoom(r) ==
    /\ r.title = TxtTwisty /\ r.interests = <<>> /\ r.prompt = TxtFooter
    /\ \A n \in 1 .. Len(r.exits) : r.exits[n].name \in KnownExits

PlainGame(g) == \A k \in 1 .. Len(g.rooms) : PlainRoom(g.rooms[k])

\* the snapshots one exit other than "ladder" away from snapshot d, by the
\* exits the program lists when asked to look at d
Successors(d) ==
    LET exits == ParseRoom(OutputOp(Command(d, TxtLook).vm).s).exits
    IN  {Dump(Command(d, e \o TxtNewline).vm) :
            e \in {exits[n] : n \in 1 .. Len(exits)} \ {TxtLadder}}

\* the least set of snapshots that holds S and the successors of its members
RECURSIVE Closure(_)
Closure(S) ==
    LET T == S \cup UNION {Successors(d) : d \in S}
    IN  IF T = S THEN S ELSE Closure(T)

\* snapshot a has one successor, another snapshot, whose one successor is a
TwoRoomGraph(a) ==
    \E b \in Successors(a) :
        b # a /\ Successors(a) = {b} /\ Successors(b) = {a}

C8_Terminates == (pc = "loop" /\ PlainGame(game)) ~> (pc = "done" /\ q = <<>>)

C8_Coverage ==
    (pc = "done" /\ PlainGame(game)) => seen = Closure({expanded[1]})

C8_TwoRooms ==
    (pc = "done" /\ PlainGame(game) /\ TwoRoomGraph(expanded[1]))
        => Cardinality(seen) = 2

C9_NoBranching ==
    [][(pc = "exits" /\ Anomalous(room)) => (seen' = seen /\ q' = q)]_vars

\* C10: from_dump followed by dump gives back the dump; the engine from_dump
\* builds is READY with empty input and output streams; engines with the
\* same memory, stack and ip have equal dumps whatever their status and
\* streams.
C10_RoundTrip ==
    LET s == Dump(vm)
        r == FromDump(s)
    IN  /\ Dump(r) = s
        /\ r.state = READY /\ r.reader = StringIO /\ r.writer = StringIO
        /\ last.op = "snapshot" => clone[1] = r
        /\ (/\ clone # <<>>
            /\ clone[1].memory = vm.memory
            /\ clone[1].stack = vm.stack
            /\ clone[1].ip = vm.ip) => Dump(clone[1]) = Dump(vm)

\* two engines with the same memory, stack and ip, one HALTED with unread
\* input and output not yet drained, the other READY with empty streams
C10_Witness ==
    /\ clone # <<>>
    /\ Dump(clone[1]) = Dump(vm)
    /\ vm.state = HALTED /\ clone[1].state = READY
    /\ Unread(vm.reader) # <<>> /\ vm.writer.buf # <<>>
    /\ clone[1].reader = StringIO /\ clone[1].writer = StringIO

\* ------------------------------------------------- engines of one dump
\* at most this many engine objects exist (the one dumped and two restored)
MaxEngines == 3
\* a step is taken only while the stack holds at most this many words
MaxStack == 2

\* push 7 ; wmem 10 5 ; in r0 ; pop r1 ; halt
ProgBranch == <<2, 7, 16, 10, 5, 20, 32768, 3, 32769, 0>>
\* call 3 ; halt ; in r0 ; wmem 0 r0 ; ret
ProgPatch == <<17, 3, 0, 20, 32768, 16, 0, 32768, 18>>
BranchPrograms == {ProgBranch, ProgPatch}

\* the calls on vm, its clone and the explorer at rest
EngineIdle ==
    /\ exc = "none"
    /\ clone = <<>>
    /\ exc2 = "none"
    /\ last = [op |-> "init", s |-> <<>>]
    /\ supplied = <<>>
    /\ delivered = <<>>
    /\ out1 = <<>>
    /\ out2 = <<>>
    /\ snapPre = FALSE
    /\ cyc = Idle
    /\ written = <<>>
    /\ drained = <<>>
    /\ prev = <<>>
MainOff ==
    /\ game = [rooms |-> <<>>, start |-> 0, keep |-> FALSE]
    /\ seen = {}
    /\ q = <<>>
    /\ pc = "off"
    /\ dump = <<>>
    /\ room = NoRoom("none")
    /\ i = 0
    /\ nop = 0
    /\ expanded = <<>>
NoBranches ==
    /\ heap = <<>>
    /\ snapshot = <<>>
    /\ engines = <<>>

\* An engine object holds references: its memory and stack fields are the
\* identities (indices into the heap hp) of two list objects.  The engine
\* it stands for has the contents of those lists.
Deref(hp, e) == [e EXCEPT !.memory = hp[e.memory], !.stack = hp[e.stack]]
\* the contents of the tuples a dump object refers to
DumpValue(hp, d) == <<hp[d[1]], hp[d[2]], d[3]>>

\* one engine built by from_file exists; nothing has been dumped
InitBranch ==
    /\ \E prog \in BranchPrograms :
          \E e \in {FromFile(ToBytes(prog))} :
              /\ heap = <<e.memory, e.stack>>
              /\ engines = <<[e EXCEPT !.memory = 1, !.stack = 2]>>
    /\ snapshot = <<>>
    /\ vm = FromFile(<<>>)
    /\ EngineIdle
    /\ MainOff

\* dump = vm.dump() on the first engine: tuple(self.memory) and
\* tuple(self.stack) are two new objects holding copies
BranchDump ==
    /\ snapshot = <<>>
    /\ \E d \in {Dump(Deref(heap, engines[1]))} :
          /\ heap' = heap \o <<d[1], d[2]>>
          /\ snapshot' = <<Len(heap) + 1, Len(heap) + 2, d[3]>>
    /\ UNCHANGED <<vm, exc, engines, hvars, xvars>>

\* Vm.from_dump, were it to hand the dump's own objects to the new engine
BranchRestoreShared ==
    /\ snapshot # <<>>
    /\ Len(engines) < MaxEngines
    /\ \E e \in {FromDump(DumpValue(heap, snapshot))} :
          /\ heap' = heap
          /\ engines' = Append(engines, [e EXCEPT !.memory = snapshot[1],
                                                  !.stack = snapshot[2]])
    /\ UNCHANGED <<vm, exc, snapshot, hvars, xvars>>

\* vm = Vm.from_dump(dump): list(memory) and list(stack) are two new
\* objects holding copies
BranchRestore ==
    /\ snapshot # <<>>
    /\ Len(engines) < MaxEngines
    /\ \E e \in {FromDump(DumpValue(heap, snapshot))} :
          /\ heap' = heap \o <<e.memory, e.stack>>
          /\ engines' = Append(engines, [e EXCEPT !.memory = Len(heap) + 1,
                                                  !.stack = Len(heap) + 2])
    /\ UNCHANGED <<vm, exc, snapshot, hvars, xvars>>

\* engines[k].input("a"), once per engine, when it has nothing left to read
BranchInput(k) ==
    /\ k \in DOMAIN engines
    /\ engines[k].reader = StringIO
    /\ engines' = [engines EXCEPT ![k] = InputOp(engines[k], <<97>>)]
    /\ UNCHANGED <<vm, exc, heap, snapshot, hvars, xvars>>

\* engines[k].step(): the instruction works on the lists the engine refers to
BranchStep(k) ==
    /\ k \in DOMAIN engines
    /\ InBounds(engines[k])
    /\ Len(heap[engines[k].stack]) <= MaxStack
    /\ \E r \in {StepOp(Deref(heap, engines[k]))} :
          /\ heap' = [heap EXCEPT ![engines[k].memory] = r.vm.memory,
                                  ![engines[k].stack] = r.vm.stack]
          /\ engines' = [engines EXCEPT ![k] =
                            [r.vm EXCEPT !.memory = engines[k].memory,
                                         !.stack = engines[k].stack]]
    /\ UNCHANGED <<vm, exc, snapshot, hvars, xvars>>

NextBranch ==
    \/ BranchDump
    \/ BranchRestore
    \/ \E k \in 1 .. MaxEngines : BranchInput(k)
    \/ \E k \in 1 .. MaxEngines : BranchStep(k)

SpecBranch == InitBranch /\ [][NextBranch]_vars

\* C11: a step of one engine leaves the dump and the memory, stack and ip of
\* every other engine as they were, and no step of any kind changes a dump
\* once it exists.
C11_BranchIsolation ==
    [][/\ snapshot # <<>> =>
              /\ snapshot' = snapshot
              /\ DumpValue(heap', snapshot') = DumpValue(heap, snapshot)
       /\ \A k \in DOMAIN engines :
              BranchStep(k) =>
                  \A j \in DOMAIN engines \ {k} :
                      /\ engines'[j].memory = engines[j].memory
                      /\ engines'[j].stack = engines[j].stack
                      /\ Dump(Deref(heap', engines'[j]))
                             = Dump(Deref(heap, engines[j]))]_vars

\* two engines restored from one dump; the first has since changed its
\* memory and its stack, the second and the dump still hold the dumped ones
C11_Witness ==
    /\ snapshot # <<>>
    /\ Len(engines) = 3
    /\ heap[engines[2].memory] # heap[snapshot[1]]
    /\ heap[engines[2].stack] # heap[snapshot[2]]
    /\ engines[2].ip # snapshot[3]
    /\ Dump(Deref(heap, engines[3])) = DumpValue(heap, snapshot)

\* ------------------------------------------------- single instructions
\* the instruction under test: an opcode word and three words after it
OpWords == 0 .. 22 \cup {32768, 32775, 32776, 65535}
AWords == {5, 32768, 32776}
BWords == {1, 7, 32769, 32767}
CWords == {0, 2, 32770}
\* what the program does before it: nothing, push 9, or set r1 32767
Preambles == {<<>>, <<2, 9>>, <<1, 32769, 32767>>}

\* at most this many calls are made on the engine
MaxSteps == 4

\* an engine loaded by from_file from a preamble and the instruction
InitStep ==
    /\ \E pre \in Preambles, op \in OpWords, a \in AWords, b \in BWords, c \in CWords :
          vm = FromFile(ToBytes(pre \o <<op, a, b, c>>))
    /\ EngineIdle
    /\ prev = <<>>
    /\ MainOff
    /\ NoBranches

\* vm.step(); last.s holds the word step took for the opcode
StepI ==
    /\ Len(prev) < MaxSteps
    /\ InBounds(vm)
    /\ Len(vm.stack) <= MaxStack
    /\ \E r \in {StepOp(vm)} :
          /\ vm' = r.vm
          /\ exc' = r.exc
    /\ last' = [op |-> "step", s |-> <<Cell(vm.memory, vm.ip)>>]
    /\ prev' = Append(prev, vm)
    /\ UNCHANGED <<clone, exc2, supplied, delivered, out1, out2, snapPre, cyc,
                   written, drained, xvars, bvars>>

\* vm.input("a"), once
InputI ==
    /\ Len(prev) < MaxSteps
    /\ vm.reader = StringIO
    /\ vm' = InputOp(vm, <<97>>)
    /\ exc' = "none"
    /\ last' = [op |-> "input", s |-> <<97>>]
    /\ prev' = Append(prev, vm)
    /\ UNCHANGED <<clone, exc2, supplied, delivered, out1, out2, snapPre, cyc,
                   written, drained, xvars, bvars>>

NextStep == StepI \/ InputI

SpecStep == InitStep /\ [][NextStep]_vars

\* the instruction the last step decoded: its opcode word, the words in its
\* operand positions and how many of them step grabs
Stepped == last.op = "step"
Opcode == last.s[1]
Arity == IF Opcode <= MaxOperand THEN NumOperands(Opcode) ELSE 0
Before == prev[Len(prev)]
Operand(n) == Cell(Before.memory, Before.ip + n)
\* the positions (0 for the opcode) of the words above 32775 among them
BadWords == {n \in 0 .. Arity : Operand(n) > 32775}
FirstBad == CHOOSE n \in BadWords : \A k \in BadWords : n <= k

\* C12: from_file accepts any 16-bit words (the engine exists, READY, at ip
\* 0, whatever the words); a step raises ValueError exactly when one of the
\* words it grabs is above 32775, with ip one past the first such word; and
\* an instruction that grabs n operands without raising and does not jump
\* leaves ip n + 1 further.
C12_LazyValidation ==
    /\ last.op = "init" => (exc = "none" /\ vm.state = READY /\ vm.ip = 0)
    /\ Stepped =>
          /\ (exc = "ValueError") <=> (BadWords # {})
          /\ BadWords # {} => vm.ip = Before.ip + FirstBad + 1
          /\ (exc = "none" /\ Opcode \notin {6, 7, 8, 17, 18, 20})
                 => vm.ip = Before.ip + Arity + 1
          /\ \A n \in 0 .. Arity :
                 Operand(n) \in 32768 .. 32775 => n \notin BadWords

\* a step has rejected an operand word of 32776 after taking opcode 1; the
\* word was loaded and is still in memory
C12_Witness ==
    /\ Stepped
    /\ Opcode = 1
    /\ Operand(1) = 32776
    /\ exc = "ValueError"
    /\ vm.ip = Before.ip + 2
    /\ Cell(vm.memory, Before.ip + 1) = 32776

\* C13: once pop has raised IndexError on an empty stack, no later call
\* executes an instruction on that engine: ip, memory, stack and output stay
\* as the failed pop left them.
C13_PopFatal ==
    [][(Stepped /\ Opcode = 3 /\ Before.stack = <<>> /\ exc = "IndexError")
          => /\ vm'.ip = vm.ip
             /\ vm'.memory = vm.memory
             /\ vm'.stack = vm.stack
             /\ vm'.writer = vm.writer]_vars

\* C14: ret on an empty stack raises nothing, sets the state to HALTED and
\* changes neither memory nor stack; ret on a non-empty stack raises
\* nothing, moves the top of the stack into ip and leaves the state alone.
C14_RetHalts ==
    (Stepped /\ Opcode = 18) =>
        /\ exc = "none"
        /\ vm.memory = Before.memory
        /\ vm.reader = Before.reader /\ vm.writer = Before.writer
        /\ Before.stack = <<>> =>
              /\ vm.state = HALTED
              /\ vm.stack = <<>>
              /\ vm.ip = Before.ip + 1
        /\ Before.stack # <<>> =>
              /\ vm.ip = Before.stack[Len(Before.stack)]
              /\ vm.stack = SubSeq(Before.stack, 1, Len(Before.stack) - 1)
              /\ vm.state = Before.state

\* a READY engine with an empty stack has executed ret
C14_Witness ==
    /\ Stepped /\ Opcode = 18
    /\ Before.state = READY /\ Before.stack = <<>>
    /\ vm.state = HALTED /\ exc = "none"

\* the opcodes that store through their first operand
DestOps == {1, 3, 4, 5, 9, 10, 11, 12, 13, 14, 15, 20}
\* the ordinary cells (0..32767) of a memory
Ordinary(m) == [n \in DOMAIN m \ Registers |-> m[n]]

\* C15: an instruction that stores through its first operand and finds a
\* literal there is rejected and changes no ordinary memory cell.
C15_LiteralDestRejected ==
    (Stepped /\ Opcode \in DestOps /\ Operand(1) \in 0 .. 32767) =>
        /\ exc # "none"
        /\ Ordinary(vm.memory) = Ordinary(Before.memory)

\* C16: every value held in memory, registers included, is in 0..32767.
C16_ValueRange ==
    \A n \in DOMAIN vm.memory : vm.memory[n] \in 0 .. 32767

\* C17: add stores (b + c) mod 32768 and mult (b * c) mod 32768 of the
\* resolved operands, a value in 0..32767.
C17_ModClosure ==
    (Stepped /\ Opcode \in {9, 10} /\ exc = "none") =>
        LET b == Val(Before, Operand(2))
            c == Val(Before, Operand(3))
            stored == Cell(vm.memory, Operand(1))
        IN  /\ Opcode = 9 => stored = (b + c) % 32768
            /\ Opcode = 10 => stored = (b * c) % 32768
            /\ stored \in 0 .. 32767

\* add has stored a sum that passed 32767
C17_Witness ==
    /\ Stepped /\ Opcode = 9 /\ exc = "none"
    /\ Val(Before, Operand(2)) + Val(Before, Operand(3)) > 32767
    /\ Cell(vm.memory, Operand(1))
           = Val(Before, Operand(2)) + Val(Before, Operand(3)) - 32768

\* C20: a step on a word in 22..32775 raises nothing and changes only ip,
\* which moves on by one.
C20_UndefinedNoop ==
    (Stepped /\ Opcode \in 22 .. 32775) =>
        /\ exc = "none"
        /\ vm = [Before EXCEPT !.ip = Before.ip + 1]

\* a step has passed over the word 32768 in opcode position, with words
\* after it that are not instructions of their own
C20_Witness ==
    /\ Stepped /\ Opcode = 32768
    /\ Operand(1) = 32776
    /\ exc = "none"
    /\ vm.ip = Before.ip + 1

\* C18: the texts output() has returned, followed by what the next call
\* would return, are the characters the `out` instructions have written, in
\* the order they wrote them; right after output() the buffer is empty and
\* a second call returns ""; and the program out 'A' ; out 'B' ; halt, once
\* HALTED, has written "AB".
C18_OutputDrain ==
    /\ drained \o OutputOp(vm).s = written
    /\ last.op = "output" =>
          /\ vm.writer = StringIO
          /\ OutputOp(vm).s = <<>>
          /\ Len(last.s) <= Len(drained)
          /\ last.s = SubSeq(drained, Len(drained) - Len(last.s) + 1, Len(drained))
    /\ (vm.memory = FromFile(ToBytes(ProgAB)).memory /\ vm.state = HALTED) =>
          /\ written = <<65, 66>>
          /\ (last.op = "output" /\ last.s # <<>>) => drained = <<65, 66>>

\* out 'A' ; out 'B' ; halt has run to its halt and one output() has
\* returned "AB"
C18_Witness ==
    /\ vm.memory = FromFile(ToBytes(ProgAB)).memory
    /\ vm.state = HALTED
    /\ last.op = "output"
    /\ last.s = <<65, 66>>
    /\ drained = <<65, 66>>
    /\ vm.writer = StringIO

\* ------------------------------------------------- parse_room on its own
TxtFoyerBare == TxtTitleMark \o TxtFoyer  \* "==Foyer"
TxtBodyLine == TxtNewline \o TxtBody  \* "\nx"

\* the parts a text is put together from; in each set the first ones are
\* of the shape the game prints and the last ones are not
Leads == {<<>>, TxtBody}
TitleLines ==
    {TxtTitlePrefix \o TxtFoyer \o TxtTitleSuffix,
     TxtTitlePrefix \o TxtTwisty \o TxtTitleSuffix,
     TxtFoyerBare,
     TxtFoyer}
BodyLines == {TxtBodyLine, <<>>, TxtBodyLine \o TxtBodyLine}
InterestLists == {<<>>, TxtThings \o TxtBullet \o TxtLamp \o TxtNewline}
ExitLists ==
    {TxtExits \o TxtBullet \o TxtNorth \o TxtNewline
              \o TxtBullet \o TxtSouth \o TxtNewline,
     TxtExits \o TxtBullet \o TxtDoor \o TxtNewline,
     TxtExits,
     TxtExits \o TxtNorth \o TxtNewline}
Footers == {TxtFooter, TxtBadFooter}

\* the text with the given parts, laid out as the game lays out a room
Compose(lead, titleLine, body, interestList, exitList, footer) ==
    lead \o TxtParagraphSep \o titleLine \o body \o TxtParagraphSep
    \o (IF interestList = <<>> THEN <<>> ELSE interestList \o TxtNewline)
    \o exitList \o TxtNewline \o footer

\* the texts of the shape: a blank lead, a title line "== title ==", one
\* body line, lists of "- " items, the prompt as footer
ConformingTexts ==
    {Compose(<<>>, TxtTitlePrefix \o title \o TxtTitleSuffix, TxtBodyLine,
             interestList, exitList, TxtFooter) :
        title \in {TxtFoyer, TxtTwisty},
        interestList \in InterestLists,
        exitList \in ExitLists \ {TxtExits \o TxtNorth \o TxtNewline}}

\* a text is at hand (last.s); nothing has parsed it yet
InitParse ==
    /\ \E lead \in Leads, titleLine \in TitleLines, body \in BodyLines,
          interestList \in InterestLists, exitList \in ExitLists,
          footer \in Footers :
          last = [op |-> "text",
                  s |-> Compose(lead, titleLine, body, interestList, exitList,
                                footer)]
    /\ vm = FromFile(<<>>)
    /\ exc = "none"
    /\ clone = <<>>
    /\ exc2 = "none"
    /\ supplied = <<>>
    /\ delivered = <<>>
    /\ out1 = <<>>
    /\ out2 = <<>>
    /\ snapPre = FALSE
    /\ cyc = Idle
    /\ written = <<>>
    /\ drained = <<>>
    /\ prev = <<>>
    /\ MainOff
    /\ NoBranches

\* room = parse_room(text)
ParseCall ==
    /\ last.op = "text"
    /\ \E r \in {ParseRoom(last.s)} :
          /\ room' = r
          /\ exc' = r.exc
    /\ last' = [last EXCEPT !.op = "parse_room"]
    /\ UNCHANGED <<vm, clone, exc2, supplied, delivered, out1, out2, snapPre,
                   cyc, written, drained, prev, game, seen, q, pc, dump, i,
                   nop, expanded, bvars>>

SpecParse == InitParse /\ [][ParseCall]_vars

\* C19: parse_room returns a room exactly for the texts of the shape, and
\* for the Foyer text without interests and with the exits north and south
\* it returns the title "Foyer", no interests and those two exits.
C19_Strict ==
    last.op = "parse_room" =>
        /\ (exc = "none") <=> (last.s \in ConformingTexts)
        /\ last.s = Compose(<<>>, TxtTitlePrefix \o TxtFoyer \o TxtTitleSuffix,
                            TxtBodyLine, <<>>,
                            TxtExits \o TxtBullet \o TxtNorth \o TxtNewline
                                     \o TxtBullet \o TxtSouth \o TxtNewline,
                            TxtFooter)
              => /\ room.title = TxtFoyer
                 /\ room.interests = <<>>
                 /\ room.exits = <<TxtNorth, TxtSouth>>

=============================================================================
